---- MODULE Spec2Model ----
(***************************************************************************)
(* Source resolution and deduplication of the Spanish-learning automation: *)
(*   scripts/calculate_schedule.py   the day's primary sources             *)
(*   scripts/collect_materials.py    feed collection (article, podcast)    *)
(*   scripts/create_notion_pages.py  duplicate guard, page creation and    *)
(*                                   the in-process fallback cascades      *)
(*   scripts/alternative_finder.py   the outer 3-pass retry loop           *)
(*                                                                         *)
(* Text is modelled as a sequence of one-character strings, so that        *)
(* slicing, lower(), split() and substring search are computed and not     *)
(* assumed.  Source names that are not ASCII in the code are written in    *)
(* ASCII here: "El País" is "El Pais", "El País 단신" is "El Pais dansin", *)
(* "El País 사설" is "El Pais saseol", "제목 없음" is "(jemok eopseum)".   *)
(***************************************************************************)
EXTENDS Integers, Sequences, FiniteSets, TLC

VARIABLES
    store,      \* titles of the pages in the Notion database
    osenv,      \* environment the driver hands to every process it launches
    drv,        \* the driver: alternative_finder.main or a plain workflow step
    env,        \* os.environ of the running create_notion_pages process
    stack,      \* call stack of the create_notion_pages process (top = last)
    ret,        \* value returned by the call that ended last
    feeds,      \* titles the entries of the alternative feeds carry during the run
    hist,       \* counters of what the run has done so far (never read by the code)
    ev,         \* what the last step did (never read by the code)
    col         \* state of one collect_materials.main run

vars == <<store, osenv, drv, env, stack, ret, feeds, hist, ev, col>>

----------------------------------------------------------------------------
(* Bounds of the model *)

MaxWeek == 5          \* week numbers 1..MaxWeek are explored
MaxInitStore == 1     \* pages already in the database when the run starts
MaxEntries == 6       \* entries of a feed snapshot

----------------------------------------------------------------------------
(* Text *)

Min(a, b) == IF a <= b THEN a ELSE b

NoTitle == <<>>                                   \* the empty string ''
T_ab == <<"a", " ", "b">>                         \* "a b"
T_ba == <<"b", " ", "a">>                         \* "b a"
T_c  == <<"c">>                                   \* "c"
Quote == "\""
T_qc == <<Quote, "c", Quote>>                     \* "c" between double quotes
Untitled == <<"(", "j", "e", "m", "o", "k", " ", "e", "o", "p", "s", "e", "u", "m", ")">>

\* titles a feed entry can carry (an entry's title may be empty)
FeedTitles == {NoTitle, T_ab, T_ba, T_qc}

UpperCase == [A |-> "a", B |-> "b", C |-> "c"]

\* str.lower() on one character
LowerChar(c) == IF c \in DOMAIN UpperCase THEN UpperCase[c] ELSE c

\* str.lower()
Lower(s) == [i \in 1..Len(s) |-> LowerChar(s[i])]

IsSpace(c) == c \in {" ", "\t", "\n"}

\* set(s.split()): the maximal runs of non-whitespace characters of s
WordSet(s) ==
    { SubSeq(s, i, j) : <<i, j>> \in
        { p \in (1..Len(s)) \X (1..Len(s)) :
            /\ p[1] <= p[2]
            /\ \A k \in p[1]..p[2] : ~IsSpace(s[k])
            /\ (p[1] = 1 \/ IsSpace(s[p[1] - 1]))
            /\ (p[2] = Len(s) \/ IsSpace(s[p[2] + 1])) } }

\* needle in hay
Contains(hay, needle) ==
    \E i \in 0..(Len(hay) - Len(needle)) : SubSeq(hay, i + 1, i + Len(needle)) = needle

\* s.strip('"')
StripQuotes(s) ==
    LET kept == { i \in 1..Len(s) : s[i] # Quote }
    IN  IF kept = {} THEN <<>>
        ELSE SubSeq(s, CHOOSE i \in kept : \A k \in kept : i <= k,
                       CHOOSE j \in kept : \A k \in kept : k <= j)

\* the value part of the line print(f'ARTICLE_TITLE="{title}"') writes
OutputValue(title) == <<Quote>> \o title \o <<Quote>>

\* new_title = line.split('=', 1)[1].strip('"')
ParsedTitle(title) == StripQuotes(OutputValue(title))

PrefixLen == 20       \* title[:20]
PageSize == 20        \* "page_size": 20

\* title[:20]
TitlePrefix(title) == SubSeq(title, 1, Min(PrefixLen, Len(title)))

\* len(a & b) / len(a | b) >= 0.9, for non-empty a | b, in integers
SimilarAtLeast90(a, b) == 10 * Cardinality(a \cap b) >= 9 * Cardinality(a \cup b)

----------------------------------------------------------------------------
(* DuplicateGuard: check_duplicate_page *)

\* how one call of check_duplicate_page can go: the configuration is missing,
\* get_database_properties fails (returns {}), the schema has no title
\* property, the query answers 200, answers another status, or raises
QueryOutcomes == {"ok", "no_config", "schema_unreadable", "no_title_prop", "non200", "raises"}

QueryFailures == QueryOutcomes \ {"ok"}

\* the pages a successful query returns: those whose title contains the
\* first 20 characters of the candidate title, at most page_size of them
QueryResults(title, pages) ==
    LET matched == { p \in pages : Contains(p, TitlePrefix(title)) }
    IN  { r \in SUBSET matched : Cardinality(r) = Min(PageSize, Cardinality(matched)) }

\* the loop over the results of the query
DuplicateAmong(title, results) ==
    \E existing \in results :
        /\ existing # NoTitle
        /\ WordSet(Lower(title)) # {}
        /\ WordSet(Lower(existing)) # {}
        /\ SimilarAtLeast90(WordSet(Lower(title)), WordSet(Lower(existing)))

check_duplicate_page_failclosed(title, outcome, results) ==
    IF outcome = "ok" THEN DuplicateAmong(title, results) ELSE TRUE

check_duplicate_page(title, outcome, results) ==
    IF outcome = "ok" THEN DuplicateAmong(title, results) ELSE FALSE

\* "content": title or "제목 없음"
PostedTitle(title) == IF title = NoTitle THEN Untitled ELSE title

\* token-set Jaccard similarity >= 0.90 of two titles, as the guard defines it
Similar(t1, t2) ==
    /\ WordSet(Lower(t1)) # {}
    /\ WordSet(Lower(t2)) # {}
    /\ SimilarAtLeast90(WordSet(Lower(t1)), WordSet(Lower(t2)))

----------------------------------------------------------------------------
(* SourceCatalog and the daily schedule *)

Weeks == 1..MaxWeek
Weekdays == 0..6

\* calculate_schedule.main: the reading source of a week
reading_source(week_num) ==
    IF week_num <= 2 THEN "20minutos"
    ELSE IF week_num <= 4 THEN "El Pais dansin"
    ELSE "El Pais saseol"

\* calculate_schedule.main: podcast_schedule.get(weekday, podcast_schedule[0])
podcast_info(weekday) ==
    CASE weekday = 1 -> [name |-> "Radio Ambulante", rss |-> "https://feeds.npr.org/510311/podcast.xml"]
      [] weekday = 2 -> [name |-> "SpanishWithVicente", rss |-> "https://feeds.feedburner.com/SpanishWithVicente"]
      [] weekday = 3 -> [name |-> "Radio Ambulante", rss |-> "https://feeds.npr.org/510311/podcast.xml"]
      [] weekday = 4 -> [name |-> "DELE Podcast", rss |-> "https://anchor.fm/s/f4f4a4f0/podcast/rss"]
      [] OTHER -> [name |-> "Hoy Hablamos", rss |-> "https://www.hoyhablamos.com/podcast.rss"]

\* what the schedule can hand to the collection and publishing steps
Schedules ==
    { [READING_SOURCE |-> reading_source(w),
       PODCAST_NAME |-> podcast_info(d).name,
       PODCAST_RSS |-> podcast_info(d).rss,
       WEDNESDAY |-> (d = 2)] : <<w, d>> \in Weeks \X Weekdays }

\* "El País" in reading_source
HasElPais(src) == src \in {"El Pais", "El Pais dansin", "El Pais saseol"}

\* "사설" in reading_source
HasSaseol(src) == src = "El Pais saseol"

\* collect_materials.main: the feed a reading source resolves to
feed_url(src) ==
    IF src = "20minutos" THEN "https://www.20minutos.es/rss/"
    ELSE IF HasElPais(src) THEN
        IF HasSaseol(src) THEN "https://feeds.elpais.com/mrss-s/pages/ep/site/elpais.com/section/opinion"
        ELSE "https://feeds.elpais.com/mrss-s/pages/ep/site/elpais.com/portada"
    ELSE IF src = "El Mundo" THEN "https://e00-elmundo.uecdn.es/elmundo/rss/portada.xml"
    ELSE IF src = "ABC" THEN "https://www.abc.es/rss/feeds/abc_EspanaEspana.xml"
    ELSE "https://www.20minutos.es/rss/"

\* alternative_sources, the same list in alternative_finder and in
\* create_notion_pages (the URL of each pair is never read: the child
\* process resolves the feed from the name)
alternative_sources == <<"20minutos", "El Pais", "El Pais saseol", "El Mundo", "ABC">>

\* alternative_podcasts of create_notion_pages.find_and_register_alternative_podcast
alternative_podcasts ==
    << [name |-> "Notes in Spanish", rss |-> "https://feeds.feedburner.com/notesinspanish"],
       [name |-> "Unlimited Spanish", rss |-> "https://unlimitedspanish.libsyn.com/rss"],
       [name |-> "Radio Ambulante", rss |-> "https://radioambulante.org/feed"],
       [name |-> "SoundCloud Spanish Learning", rss |-> "https://feeds.soundcloud.com/users/soundcloud:users:144513835/sounds.rss"],
       [name |-> "SoundCloud Spanish Podcast", rss |-> "https://feeds.soundcloud.com/users/soundcloud:users:250208044/sounds.rss"] >>

\* alternative_podcasts of alternative_finder.find_alternative_podcast
finder_alternative_podcasts ==
    << [name |-> "Hoy Hablamos", rss |-> "https://www.hoyhablamos.com/podcast.rss"],
       [name |-> "Radio Ambulante", rss |-> "https://feeds.npr.org/510311/podcast.xml"],
       [name |-> "SpanishWithVicente", rss |-> "https://feeds.feedburner.com/SpanishWithVicente"],
       [name |-> "DELE Podcast", rss |-> "https://anchor.fm/s/f4f4a4f0/podcast/rss"] >>

\* backup_feeds of create_notion_pages.try_backup_podcast_feeds
backup_feeds ==
    << [name |-> "Notes in Spanish", rss |-> "https://feeds.feedburner.com/notesinspanish"] >>

\* [source for source in alternative_sources if source[0] != current_source]
available_sources(current_source) ==
    SelectSeq(alternative_sources, LAMBDA s : s # current_source)

\* [p for p in alternative_podcasts if p['name'] != current_podcast]
available_podcasts(list, current_podcast) ==
    SelectSeq(list, LAMBDA p : p.name # current_podcast)

----------------------------------------------------------------------------
(* The create_notion_pages process: call stack and helpers *)

ContentTypes == {"article", "podcast"}

\* what one child run of collect_materials.py gives its parent: it failed
\* (non-zero exit, timeout, exception), it exited 0 without printing a title
\* line, or it exited 0 and printed the title of the entry it selected
CollectResults(titles) ==
    {[status |-> "failed", title |-> NoTitle], [status |-> "nothing", title |-> NoTitle]}
        \cup { [status |-> "item", title |-> t] : t \in titles }

\* how the page-creation part of create_notion_page can go
CreateOutcomes == {"no_config", "no_title_prop", "200", "non200", "raises"}

\* the outcomes in which requests.post to /v1/pages is reached
PostReached == {"200", "non200", "raises"}

\* f"{podcast_title} (백업 {today})"
BackupSuffix == <<" ", "(", "b", "k", " ", "0", "1", "0", "1", ")">>
backup_title(podcast_title) == podcast_title \o BackupSuffix

MainFrame == [fn |-> "main", pc |-> "start"]

CnpFrame(title, ct, alt) ==
    [fn |-> "create_notion_page", title |-> title, content_type |-> ct,
     is_alternative |-> alt, pc |-> "check", outcome |-> "none", dup |-> FALSE,
     made |-> 0]

\* range(3) in find_and_register_alternative_podcast; the other cascades
\* walk their list once
Rounds(kind) == IF kind = "podcast" THEN 3 ELSE 1

\* passed: an earlier source of this cascade gave a title that passed the
\* cascade's duplicate check (an observation, never read by the code)
CascadeFrame(kind, avail) ==
    [fn |-> "cascade", kind |-> kind, avail |-> avail, attempt |-> 0, idx |-> 1,
     pc |-> "fetch", new_title |-> NoTitle, passed |-> FALSE]

WithFeed(names) == [i \in 1..Len(names) |-> [name |-> names[i], rss |-> feed_url(names[i])]]

\* try_alternative_materials: the cascade of a content type
try_alternative_materials(ct, e) ==
    IF ct = "article"
    THEN CascadeFrame("article", WithFeed(available_sources(e.READING_SOURCE)))
    ELSE CascadeFrame("podcast", available_podcasts(alternative_podcasts, e.PODCAST_NAME))

CascadeType(kind) == IF kind = "article" THEN "article" ELSE "podcast"

Running == stack # <<>>
Top == stack[Len(stack)]
Below == SubSeq(stack, 1, Len(stack) - 1)
At(fn, pc) == Running /\ Top.fn = fn /\ Top.pc = pc

NoEvent == [kind |-> "none"]

InitHist ==
    [queriesOk |-> TRUE, fetched |-> <<>>, inspections |-> 0, createCalls |-> 0,
     earlier |-> {}, current |-> {}, published |-> FALSE, created |-> {}]

\* the (source, candidate) pair a primary call of create_notion_page works on
PrimaryPair(frame, e) ==
    [content_type |-> frame.content_type,
     source |-> IF frame.content_type = "article" THEN e.READING_SOURCE ELSE e.PODCAST_NAME,
     title |-> frame.title]

\* the pairs the run has submitted, after frame was submitted in this pass
Submitted(h, frame, e) ==
    IF frame.is_alternative THEN h.current ELSE h.current \cup {PrimaryPair(frame, e)}

\* the outcomes a duplicate check can have in environment e
ChecksIn(e) == { o \in QueryOutcomes : (o = "no_config") <=> ~e.NOTION_OK }

CreatesIn(e) == { o \in CreateOutcomes : (o = "no_config") <=> ~e.NOTION_OK }

----------------------------------------------------------------------------
(* create_notion_pages.main *)

\* main: the configuration check
MainStart ==
    /\ At("main", "start")
    /\ stack' = Below \o <<[Top EXCEPT !.pc = IF env.NOTION_OK THEN "article" ELSE "exit"]>>
    /\ ev' = NoEvent
    /\ UNCHANGED <<store, osenv, drv, env, ret, feeds, hist, col>>

\* main: the article page (env_vars is the environment the process started with)
MainArticle ==
    /\ At("main", "article")
    /\ IF osenv.ARTICLE_TITLE # NoTitle
       THEN stack' = Below \o <<[Top EXCEPT !.pc = "podcast"],
                                CnpFrame(osenv.ARTICLE_TITLE, "article", FALSE)>>
       ELSE stack' = Below \o <<[Top EXCEPT !.pc = "podcast"]>>
    /\ ev' = NoEvent
    /\ UNCHANGED <<store, osenv, drv, env, ret, feeds, hist, col>>

\* main: the podcast page
MainPodcast ==
    /\ At("main", "podcast")
    /\ IF osenv.PODCAST_TITLE # NoTitle
       THEN stack' = Below \o <<[Top EXCEPT !.pc = "podcast_returned"],
                                CnpFrame(osenv.PODCAST_TITLE, "podcast", FALSE)>>
       ELSE stack' = Below \o <<[Top EXCEPT !.pc = "exit"]>>
    /\ ev' = NoEvent
    /\ ret' = "none"
    /\ UNCHANGED <<store, osenv, drv, env, feeds, hist, col>>

\* main: podcast_page_url == "DUPLICATE_FOUND" starts the backup title
MainPodcastReturned ==
    /\ At("main", "podcast_returned")
    /\ IF ret = "DUPLICATE_FOUND"
       THEN stack' = Below \o <<[Top EXCEPT !.pc = "backup_returned"],
                                CnpFrame(backup_title(osenv.PODCAST_TITLE), "podcast", TRUE)>>
       ELSE stack' = Below \o <<[Top EXCEPT !.pc = "exit"]>>
    /\ ev' = NoEvent
    /\ ret' = "none"
    /\ UNCHANGED <<store, osenv, drv, env, feeds, hist, col>>

\* main: a failed backup title starts try_backup_podcast_feeds
MainBackupReturned ==
    /\ At("main", "backup_returned")
    /\ IF ret = "URL"
       THEN stack' = Below \o <<[Top EXCEPT !.pc = "exit"]>>
       ELSE stack' = Below \o <<[Top EXCEPT !.pc = "exit"], CascadeFrame("backup", backup_feeds)>>
    /\ ev' = NoEvent
    /\ ret' = "none"
    /\ UNCHANGED <<store, osenv, drv, env, feeds, hist, col>>

----------------------------------------------------------------------------
(* create_notion_page *)

\* "if sufficient_colloquial and content_type == 'podcast'": the duplicate is
\* kept as it is and no alternative is searched
SkipsCascade_anytype(frame, e) == e.SUFFICIENT_COLLOQUIAL_FOUND

SkipsCascade(frame, e) == e.SUFFICIENT_COLLOQUIAL_FOUND /\ frame.content_type = "podcast"

\* a duplicate is answered with DUPLICATE_FOUND at once: in alternative mode
\* ("else" of "if not is_alternative"), and for a podcast with sufficient
\* colloquial expressions
ReturnsDuplicate_nested(frame, e) == SkipsCascade(frame, e)

ReturnsDuplicate(frame, e) == frame.is_alternative \/ SkipsCascade(frame, e)

\* create_notion_page up to the end of its duplicate check
\* old: the pages among the results that were published more than 7 days
\* ago; neither the query nor the comparison looks at a page's date
CnpCheck ==
    /\ At("create_notion_page", "check")
    /\ \E outcome \in ChecksIn(env), results \in QueryResults(Top.title, store) :
         LET dup == check_duplicate_page(Top.title, outcome, results)
             me == [Top EXCEPT !.outcome = outcome, !.dup = dup]
         IN  \E old \in (IF dup THEN SUBSET results ELSE {{}}) :
             /\ hist' = [hist EXCEPT !.queriesOk = @ /\ outcome = "ok",
                                      !.current = Submitted(hist, Top, osenv)]
             /\ IF ~dup
                THEN /\ stack' = Below \o <<[me EXCEPT !.pc = "create"]>>
                     /\ ret' = ret
                     /\ ev' = [kind |-> "checked", frame |-> me, next |-> "create", old |-> old]
                ELSE IF ReturnsDuplicate(me, env)
                THEN /\ stack' = Below
                     /\ ret' = "DUPLICATE_FOUND"
                     /\ ev' = [kind |-> "checked", frame |-> me, next |-> "return", old |-> old]
                ELSE /\ stack' = Below \o <<[me EXCEPT !.pc = "cascade"],
                                            try_alternative_materials(me.content_type, env)>>
                     /\ ret' = ret
                     /\ ev' = [kind |-> "checked", frame |-> me, next |-> "cascade", old |-> old]
    /\ UNCHANGED <<store, osenv, drv, env, feeds, col>>

\* create_notion_page after try_alternative_materials returned
CnpCascadeReturned ==
    /\ At("create_notion_page", "cascade")
    /\ LET value == IF ret = "True" THEN "ALTERNATIVE_REGISTERED" ELSE "DUPLICATE_FOUND"
       IN  /\ ret' = value
           /\ ev' = [kind |-> "return", frame |-> Top, value |-> value, cascaded |-> TRUE]
    /\ stack' = Below
    /\ UNCHANGED <<store, osenv, drv, env, feeds, hist, col>>

\* "if response.status_code == 200: return page_data['url']", else None
page_url_lost(outcome) == "None"

page_url(outcome) == IF outcome = "200" THEN "URL" ELSE "None"

\* made, in the frame of a create_notion_page call: the pages created since
\* the call started (never read by the code)
CountPage(frames) ==
    [i \in DOMAIN frames |->
        IF frames[i].fn = "create_notion_page" THEN [frames[i] EXCEPT !.made = @ + 1]
        ELSE frames[i]]

\* create_notion_page from "중복 없음" to its return: the schema is read,
\* the properties are built and the page is posted
CnpCreate ==
    /\ At("create_notion_page", "create")
    /\ \E outcome \in CreatesIn(env) :
         LET value == page_url(outcome)
         IN  /\ stack' = IF outcome = "200" THEN CountPage(Below) ELSE Below
             /\ store' = IF outcome = "200" THEN store \cup {PostedTitle(Top.title)} ELSE store
             /\ ret' = value
             /\ ev' = [kind |-> IF outcome \in PostReached THEN "post" ELSE "return",
                       frame |-> Top, value |-> value, cascaded |-> FALSE,
                       title |-> PostedTitle(Top.title), status |-> outcome,
                       before |-> store, consistent |-> hist.queriesOk,
                       again |-> Top.content_type \in hist.created,
                       made |-> IF outcome = "200" THEN Top.made + 1 ELSE Top.made]
             /\ hist' = [hist EXCEPT
                   !.published = @ \/ outcome = "200",
                   !.created = IF outcome = "200" THEN @ \cup {Top.content_type} ELSE @]
    /\ UNCHANGED <<osenv, drv, env, feeds, col>>

----------------------------------------------------------------------------
(* The fallback cascades of create_notion_pages:                           *)
(* find_and_register_alternative_article, find_and_register_alternative_   *)
(* podcast and try_backup_podcast_feeds                                    *)

Source == Top.avail[Top.idx]

NextSource(frame) == [frame EXCEPT !.idx = @ + 1, !.pc = "fetch", !.new_title = NoTitle]

\* one child run of collect_materials.py for the next source of the list
CascadeFetch ==
    /\ At("cascade", "fetch")
    /\ Top.idx <= Len(Top.avail)
    /\ \E out \in CollectResults(feeds) :
         stack' = Below \o
             <<IF out.status = "item"
               THEN [Top EXCEPT !.pc = "check", !.new_title = ParsedTitle(out.title)]
               ELSE NextSource(Top)>>
    /\ hist' = [hist EXCEPT !.fetched = IF Top.kind = "article" THEN @ ELSE Append(@, Source.rss)]
    /\ ev' = [kind |-> "fetch", content_type |-> CascadeType(Top.kind), source |-> Source,
              avail |-> Top.avail, idx |-> Top.idx]
    /\ UNCHANGED <<store, osenv, drv, env, ret, feeds, col>>

\* the list is walked: the next round starts after time.sleep(2), or the
\* cascade returns False
CascadeEndOfList ==
    /\ At("cascade", "fetch")
    /\ Top.idx > Len(Top.avail)
    /\ IF Top.attempt + 1 < Rounds(Top.kind)
       THEN /\ stack' = Below \o <<[Top EXCEPT !.attempt = @ + 1, !.idx = 1]>>
            /\ ret' = ret
       ELSE /\ stack' = Below
            /\ ret' = "False"
    /\ ev' = NoEvent
    /\ UNCHANGED <<store, osenv, drv, env, feeds, hist, col>>

\* os.environ[key] = value for the lines of the child's output
UpdatedEnv(e, kind, title) ==
    IF kind = "article" THEN [e EXCEPT !.ARTICLE_TITLE = title]
    ELSE [e EXCEPT !.PODCAST_TITLE = title]

\* feed entries of an alternative source that count as inspected (entries[:3])
InspectedEntries == 3

\* the duplicate check of the title the child printed; a fresh title is
\* handed to create_notion_page in alternative mode (counting: the
\* specification counts the podcast inspections of the run in hist).  The
\* child printed one entry of the feed: unread are the titles of the other
\* entries among the feed's first 3, which the cascade never sees
CascadeCheck(counting) ==
    /\ At("cascade", "check")
    /\ \E outcome \in ChecksIn(env), results \in QueryResults(Top.new_title, store),
          unread \in { o \in SUBSET (feeds \ {NoTitle}) : Cardinality(o) <= InspectedEntries - 1 } :
         LET dup == check_duplicate_page(Top.new_title, outcome, results)
         IN  /\ IF dup
                THEN /\ stack' = Below \o <<NextSource(Top)>>
                     /\ env' = env
                ELSE /\ stack' = Below \o <<[Top EXCEPT !.pc = "create"],
                                            CnpFrame(Top.new_title, CascadeType(Top.kind), TRUE)>>
                     /\ env' = UpdatedEnv(env, Top.kind, Top.new_title)
             /\ hist' = [hist EXCEPT
                   !.queriesOk = @ /\ outcome = "ok",
                   !.inspections = IF counting /\ Top.kind # "article" THEN @ + 1 ELSE @]
             /\ ev' = IF dup
                      THEN [kind |-> "abandoned", title |-> Top.new_title, unread |-> unread]
                      ELSE NoEvent
    /\ UNCHANGED <<store, osenv, drv, ret, feeds, col>>

\* create_notion_page returned: a page URL ends the cascade with True,
\* anything else moves on to the next source
CascadeCreated ==
    /\ At("cascade", "create")
    /\ IF ret = "URL"
       THEN /\ stack' = Below
            /\ ret' = "True"
            /\ ev' = [kind |-> "accept", by |-> Top.kind, source |-> Source.name,
                      yielded |-> TRUE, earlier |-> Top.passed]
       ELSE /\ stack' = Below \o <<[NextSource(Top) EXCEPT !.passed = TRUE]>>
            /\ ret' = "none"
            /\ ev' = [kind |-> "next_source", content_type |-> CascadeType(Top.kind),
                      post_failed |-> (ev.kind = "post")]
    /\ UNCHANGED <<store, osenv, drv, env, feeds, hist, col>>

----------------------------------------------------------------------------
(* The drivers: a workflow step that runs create_notion_pages.py once, and *)
(* alternative_finder.main                                                 *)

max_attempts == 3

Workflow == [kind |-> "workflow", pc |-> "launch", attempt |-> 1, success |-> FALSE, idx |-> 1]
Finder == [kind |-> "finder", pc |-> "attempt", attempt |-> 1, success |-> FALSE, idx |-> 1]

\* the exit status of the driver's process once it is done: main of
\* create_notion_pages returns and the interpreter exits with 0;
\* alternative_finder ends with sys.exit(0 if success else 1)
ExitStatus(d) ==
    IF d.kind = "workflow" THEN 0
    ELSE IF d.success THEN 0 ELSE 1

\* the workflow step starts the process
WorkflowLaunch ==
    /\ drv.kind = "workflow" /\ drv.pc = "launch"
    /\ stack' = <<MainFrame>>
    /\ env' = osenv
    /\ drv' = [drv EXCEPT !.pc = "wait"]
    /\ ev' = NoEvent
    /\ UNCHANGED <<store, osenv, ret, feeds, hist, col>>

\* main returned: the process exits with status 0
WorkflowExit ==
    /\ drv.kind = "workflow" /\ drv.pc = "wait"
    /\ At("main", "exit")
    /\ stack' = <<>>
    /\ drv' = [drv EXCEPT !.pc = "done", !.success = TRUE]
    /\ env' = osenv
    /\ ret' = "none"
    /\ ev' = NoEvent
    /\ UNCHANGED <<store, osenv, feeds, hist, col>>

\* run_create_notion_pages: subprocess.run starts the child, or raises
FinderRunCreate ==
    /\ drv.kind = "finder" /\ drv.pc = "attempt"
    /\ \/ /\ stack' = <<MainFrame>>
          /\ env' = osenv
          /\ drv' = [drv EXCEPT !.pc = "wait"]
       \/ /\ drv' = [drv EXCEPT !.pc = "alt_article", !.idx = 1]
          /\ UNCHANGED <<stack, env>>
    /\ hist' = [hist EXCEPT !.fetched = <<>>, !.createCalls = @ + 1,
                             !.earlier = @ \cup hist.current, !.current = {}]
    /\ ret' = "none"
    /\ ev' = [kind |-> "create_call", attempt |-> drv.attempt]
    /\ UNCHANGED <<store, osenv, feeds, col>>

\* "if run_create_notion_pages(): success = True; break"
pass_succeeded_nobreak(d) == [d EXCEPT !.pc = "alt_article", !.idx = 1, !.success = TRUE]

pass_succeeded(d) == [d EXCEPT !.pc = "done", !.success = TRUE]

\* the child exits with status 0: run_create_notion_pages returns True
FinderCreateSucceeded ==
    /\ drv.kind = "finder" /\ drv.pc = "wait"
    /\ At("main", "exit")
    /\ stack' = <<>>
    /\ drv' = pass_succeeded(drv)
    /\ env' = osenv
    /\ ret' = "none"
    /\ ev' = NoEvent
    /\ UNCHANGED <<store, osenv, feeds, hist, col>>

\* timeout=60 expires and the child is killed wherever it is
FinderCreateTimeout ==
    /\ drv.kind = "finder" /\ drv.pc = "wait"
    /\ Running
    /\ stack' = <<>>
    /\ drv' = [drv EXCEPT !.pc = "alt_article", !.idx = 1]
    /\ env' = osenv
    /\ ret' = "none"
    /\ ev' = NoEvent
    /\ UNCHANGED <<store, osenv, feeds, hist, col>>

\* find_alternative_article: one child run of collect_materials.py per
\* source; exit status 0 ends the search with True
FinderAltArticle ==
    /\ drv.kind = "finder" /\ drv.pc = "alt_article"
    /\ LET avail == available_sources(osenv.READING_SOURCE)
       IN  IF osenv.ARTICLE_TITLE = NoTitle \/ drv.idx > Len(avail)
           THEN /\ drv' = [drv EXCEPT !.pc = "alt_podcast", !.idx = 1]
                /\ ev' = NoEvent
           ELSE \E out \in CollectResults(feeds) :
                  IF out.status = "failed"
                  THEN /\ drv' = [drv EXCEPT !.idx = @ + 1]
                       /\ ev' = NoEvent
                  ELSE /\ drv' = [drv EXCEPT !.pc = "alt_podcast", !.idx = 1]
                       /\ ev' = [kind |-> "accept", by |-> "finder", source |-> avail[drv.idx],
                                 yielded |-> (out.status = "item"), earlier |-> FALSE,
                                 title |-> out.title]
    /\ UNCHANGED <<store, osenv, env, stack, ret, feeds, hist, col>>

\* find_alternative_podcast, then the end of the pass: time.sleep(3) and the
\* next attempt, or the end of the loop
FinderAltPodcast ==
    /\ drv.kind = "finder" /\ drv.pc = "alt_podcast"
    /\ LET avail == available_podcasts(finder_alternative_podcasts, osenv.PODCAST_NAME)
           endOfPass == IF drv.attempt < max_attempts
                        THEN [drv EXCEPT !.pc = "attempt", !.attempt = @ + 1, !.idx = 1]
                        ELSE [drv EXCEPT !.pc = "done", !.idx = 1]
       IN  IF osenv.PODCAST_TITLE = NoTitle \/ drv.idx > Len(avail)
           THEN drv' = endOfPass
           ELSE \E out \in CollectResults(feeds) :
                  drv' = IF out.status = "failed" THEN [drv EXCEPT !.idx = @ + 1] ELSE endOfPass
    /\ ev' = NoEvent
    /\ UNCHANGED <<store, osenv, env, stack, ret, feeds, hist, col>>

----------------------------------------------------------------------------
(* collect_materials.main: the article stage, then the podcast stage with  *)
(* its backup feeds and its alternative podcasts                           *)

\* what feedparser.parse of an article feed and the code after it can do:
\* an exception, a feed without entries, a feed with entries
ArticleFeedOutcomes == {"raises", "empty", "entries"}

\* the same for a podcast feed, whose status 404 is looked at as well
PodcastFeedOutcomes == {"raises", "404", "empty", "entries"}

\* backup_feeds of collect_materials.main, by weekday_name == "수요일"
collect_backup_feeds(wednesday) ==
    IF wednesday
    THEN << [name |-> "SpanishPodcast", rss |-> "https://feeds.feedburner.com/SpanishPodcast"],
            [name |-> "Radio Ambulante", rss |-> "https://feeds.simplecast.com/54nAGcIl"],
            [name |-> "Espanolistos", rss |-> "https://creators.spotify.com/pod/show/espanolistos/rss"] >>
    ELSE << [name |-> "SpanishPodcast", rss |-> "https://feeds.feedburner.com/SpanishPodcast"],
            [name |-> "Radio Ambulante", rss |-> "https://feeds.simplecast.com/54nAGcIl"],
            [name |-> "Espanolistos", rss |-> "https://creators.spotify.com/pod/show/espanolistos/rss"],
            [name |-> "SpanishPodcast (geumyoil)", rss |-> "https://feeds.feedburner.com/SpanishPodcast"] >>

all_podcasts ==
    << [name |-> "SpanishPodcast", rss |-> "https://feeds.feedburner.com/SpanishPodcast"],
       [name |-> "Radio Ambulante", rss |-> "https://feeds.simplecast.com/54nAGcIl"],
       [name |-> "Espanolistos", rss |-> "https://creators.spotify.com/pod/show/espanolistos/rss"],
       [name |-> "SpanishPodcast (geumyoil)", rss |-> "https://feeds.feedburner.com/SpanishPodcast"] >>

\* get_alternative_podcasts: every podcast whose name is not the current one
get_alternative_podcasts(current_podcast_name) ==
    SelectSeq(all_podcasts, LAMBDA p : p.name # current_podcast_name)

Collecting(pc) == col.pc = pc

\* the article stage: one feed is read; nothing follows a feed that gave no entry
ColArticle ==
    /\ Collecting("article")
    /\ \E out \in ArticleFeedOutcomes :
         col' = [col EXCEPT
                   !.pc = "podcast",
                   !.article_fetched = Append(@, feed_url(col.READING_SOURCE)),
                   !.article_data = IF out = "entries" THEN "item" ELSE "None"]
    /\ UNCHANGED <<store, osenv, drv, env, stack, ret, feeds, hist, ev>>

\* the podcast stage: the feed of the day; status 404 or no entry starts the
\* backup feeds, an exception ends the stage
ColPodcast ==
    /\ Collecting("podcast")
    /\ \E out \in PodcastFeedOutcomes :
         col' = [col EXCEPT
                   !.pc = IF out \in {"404", "empty"} THEN "backup" ELSE "output",
                   !.idx = 1,
                   !.list = IF out \in {"404", "empty"} THEN collect_backup_feeds(col.WEDNESDAY) ELSE <<>>,
                   !.podcast_fetched = Append(@, col.PODCAST_RSS),
                   !.podcast_data = IF out = "entries" THEN "item" ELSE "None"]
    /\ UNCHANGED <<store, osenv, drv, env, stack, ret, feeds, hist, ev>>

\* one feed of a list: the first feed with an entry gives the episode
ColFeedOfList(stage) ==
    /\ Collecting(stage)
    /\ col.idx <= Len(col.list)
    /\ \E out \in ArticleFeedOutcomes :
         col' = [col EXCEPT
                   !.pc = IF out = "entries" THEN "output" ELSE stage,
                   !.idx = @ + 1,
                   !.podcast_fetched = Append(@, col.list[col.idx].rss),
                   !.podcast_data = IF out = "entries" THEN "item" ELSE "None"]
    /\ UNCHANGED <<store, osenv, drv, env, stack, ret, feeds, hist, ev>>

\* for backup_url, ... in backup_feeds
ColBackupFeed == ColFeedOfList("backup")

\* "if not podcast_data": every backup feed failed, the alternatives follow
ColBackupExhausted ==
    /\ Collecting("backup")
    /\ col.idx > Len(col.list)
    /\ col' = [col EXCEPT !.pc = "alternative", !.idx = 1,
                          !.list = get_alternative_podcasts(col.PODCAST_NAME)]
    /\ UNCHANGED <<store, osenv, drv, env, stack, ret, feeds, hist, ev>>

\* try_alternative_podcast: for alt_name, alt_info in alternatives
ColTryAlternative == ColFeedOfList("alternative")

\* try_alternative_podcast returned None
ColAlternativesExhausted ==
    /\ Collecting("alternative")
    /\ col.idx > Len(col.list)
    /\ col' = [col EXCEPT !.pc = "output"]
    /\ UNCHANGED <<store, osenv, drv, env, stack, ret, feeds, hist, ev>>

\* feedparser.parse(url) is called without a timeout and no default socket
\* timeout is set: the set of waits after which the call is abandoned is empty
feedparser_timeouts == {}

\* the endpoint of the feed a stage reads accepts the request and never
\* answers: the call returns only if a timeout abandons it
ColFeedNeverAnswers ==
    /\ \/ Collecting("article") \/ Collecting("podcast")
       \/ (Collecting("backup") \/ Collecting("alternative")) /\ col.idx <= Len(col.list)
    /\ feedparser_timeouts = {}
    /\ col' = [col EXCEPT !.pc = "blocked"]
    /\ UNCHANGED <<store, osenv, drv, env, stack, ret, feeds, hist, ev>>

\* the results are written to GITHUB_OUTPUT and, in alternative mode or
\* without GITHUB_OUTPUT, printed; main returns
ColOutput ==
    /\ Collecting("output")
    /\ col' = [col EXCEPT !.pc = "done",
                          !.printed = col.FORCE_ALTERNATIVE \/ ~col.GITHUB_OUTPUT]
    /\ UNCHANGED <<store, osenv, drv, env, stack, ret, feeds, hist, ev>>

----------------------------------------------------------------------------
(* collect_materials: the entry a stage selects from one feed snapshot.    *)
(* A snapshot gives, for each entry in feed order, whether                 *)
(* is_spanish_content_by_transcript judges it Spanish.  Indices are those  *)
(* of Python (0 is the first entry); NoEntry says that the stage takes no  *)
(* episode from the feed.                                                  *)

Snapshots == UNION { [1..n -> BOOLEAN] : n \in 0..MaxEntries }

NoEntry == -1

Stages == {"article", "podcast", "backup", "alternative"}

\* 'npr.org' in podcast_rss, over the feed URLs the code names
NprOrg(url) == url = "https://feeds.npr.org/510311/podcast.xml"

\* the feed URLs a stage can be given
StageFeeds(stage) ==
    CASE stage = "article" -> { feed_url(sc.READING_SOURCE) : sc \in Schedules }
      [] stage = "podcast" ->
           { sc.PODCAST_RSS : sc \in Schedules }
               \cup { alternative_podcasts[i].rss : i \in DOMAIN alternative_podcasts }
      [] stage = "backup" ->
           { collect_backup_feeds(w)[i].rss : w \in BOOLEAN, i \in 1..3 }
      [] OTHER -> { all_podcasts[i].rss : i \in DOMAIN all_podcasts }

\* random.randint(lo, hi)
randint(lo, hi) == lo..hi

\* entry_index of the article stage
article_entry_index(n, force_alternative, r) ==
    IF force_alternative THEN Min(r, n - 1) ELSE 0

ArticleSelections(entries, force_alternative) ==
    IF Len(entries) = 0 THEN {NoEntry}
    ELSE { article_entry_index(Len(entries), force_alternative, r) : r \in randint(1, 3) }

\* the indices of feed.entries[:k] that pass the language gate, in feed order
recent_episodes(entries, gate, k) ==
    SelectSeq([i \in 1..Min(k, Len(entries)) |-> i - 1],
              LAMBDA i : ~gate \/ entries[i + 1])

\* the first index of feed.entries[:k] judged Spanish, NoEntry without one
first_spanish(entries, k) ==
    LET found == { i \in 0..(Min(k, Len(entries)) - 1) : entries[i + 1] }
    IN  IF found = {} THEN NoEntry ELSE CHOOSE i \in found : \A j \in found : i <= j

\* the primary podcast stage: latest = recent_episodes[0]
primary_podcast_index(entries, gate) ==
    LET recent == recent_episodes(entries, gate, 5)
        spanish == IF gate THEN first_spanish(entries, 10) ELSE NoEntry
    IN  IF Len(entries) = 0 THEN NoEntry
        ELSE IF recent # <<>> THEN recent[1]
        ELSE IF spanish # NoEntry THEN spanish
        ELSE 0

PodcastSelections(entries, gate, force_alternative) ==
    {primary_podcast_index(entries, gate)}

\* recent_episodes of a backup feed, after its fallbacks
backup_recent_episodes(entries, gate) ==
    LET recent == recent_episodes(entries, gate, 3)
        spanish == first_spanish(entries, Len(entries))
    IN  IF recent # <<>> THEN recent
        ELSE IF gate THEN (IF spanish # NoEntry THEN <<spanish>> ELSE <<>>)
        ELSE <<0>>

BackupSelections(entries, gate, force_alternative) ==
    LET recent == backup_recent_episodes(entries, gate)
    IN  IF Len(entries) = 0 \/ recent = <<>> THEN {NoEntry}
        ELSE IF force_alternative /\ Len(recent) > 1
        THEN { recent[k + 1] : k \in randint(0, Len(recent) - 1) }
        ELSE {recent[1]}

\* try_alternative_podcast: the first of feed.entries[:3] is returned
AlternativeSelections(entries, force_alternative) ==
    IF Len(entries) = 0 THEN {NoEntry} ELSE {0}

\* one more run of a stage on the snapshot
SelectRun(stage, selections) ==
    /\ col.pc = "select"
    /\ col.stage = stage
    /\ \E index \in selections :
         LET runs == Append(col.runs, [force_alternative |-> col.force_alternative,
                                       index |-> index])
         IN  \E next_mode \in BOOLEAN :
               col' = [col EXCEPT !.runs = runs,
                                  !.force_alternative = next_mode,
                                  !.pc = IF Len(runs) = 2 THEN "done" ELSE "select"]
    /\ UNCHANGED <<store, osenv, drv, env, stack, ret, feeds, hist, ev>>

SelArticle ==
    SelectRun("article", ArticleSelections(col.entries, col.force_alternative))

SelPodcast ==
    SelectRun("podcast", PodcastSelections(col.entries, NprOrg(col.rss), col.force_alternative))

SelBackup ==
    SelectRun("backup", BackupSelections(col.entries, NprOrg(col.rss), col.force_alternative))

SelAlternative ==
    SelectRun("alternative", AlternativeSelections(col.entries, col.force_alternative))

----------------------------------------------------------------------------
(* collect_materials.py: the difficulty tier of a candidate *)

B2 == <<"B", "2">>
C1 == <<"C", "1">>

\* calculate_schedule.py: reading_difficulty of the week
reading_difficulty(week_num) == IF week_num <= 4 THEN B2 ELSE C1

\* os.environ.get('READING_DIFFICULTY', 'B2'); the variable is the set of its
\* values: empty when it is not set
preset_difficulty(READING_DIFFICULTY) ==
    IF READING_DIFFICULTY = {} THEN B2 ELSE CHOOSE d \in READING_DIFFICULTY : TRUE

\* str.upper()
Upper(s) ==
    [i \in 1..Len(s) |->
        IF \E k \in DOMAIN UpperCase : UpperCase[k] = s[i]
        THEN CHOOSE k \in DOMAIN UpperCase : UpperCase[k] = s[i]
        ELSE s[i]]

valid_levels ==
    << <<"A", "1">>, <<"A", "2">>, <<"B", "1">>, <<"B", "1", "+">>,
       <<"B", "2">>, <<"B", "2", "+">>, <<"C", "1">>, <<"C", "2">> >>

\* what the analyzer can end in: an exception out of the analyzer, or the
\* response text of the API call ('' when the request failed)
AnalyzerOutcomes ==
    {[raised |-> TRUE, response |-> <<>>]} \cup
    { [raised |-> FALSE, response |-> r] :
        r \in {<<>>, <<"?">>, <<"b", "2", "+">>, <<"C", "1">>, <<"a", " ", "c", "1">>} }

\* the levels of valid_levels found in the upper-cased response
LevelsIn(response) ==
    { i \in DOMAIN valid_levels : Contains(Upper(response), valid_levels[i]) }

\* SpanishLLMAnalyzer.analyze_text_difficulty, after the API call
llm_text_difficulty(response) ==
    IF response # <<>> /\ LevelsIn(response) # {}
    THEN valid_levels[CHOOSE i \in LevelsIn(response) : \A k \in LevelsIn(response) : i <= k]
    ELSE B2

\* collect_materials.analyze_text_difficulty
analyze_text_difficulty(content, llm_available, api_key, outcome) ==
    IF content = <<>> THEN B2
    ELSE IF ~llm_available \/ ~api_key THEN B2
    ELSE IF outcome.raised THEN B2
    ELSE llm_text_difficulty(outcome.response)

\* main, article: the body when it could be fetched, else the RSS summary
article_difficulty ==
    IF col.article_content # <<>>
    THEN analyze_text_difficulty(col.article_content, col.llm_available, col.api_key, col.outcome)
    ELSE IF col.summary # <<>>
         THEN analyze_text_difficulty(col.summary, col.llm_available, col.api_key, col.outcome)
         ELSE preset_difficulty(col.READING_DIFFICULTY)

\* main (primary podcast, backup feed) and try_alternative_podcast
summary_difficulty ==
    IF col.summary # <<>>
    THEN analyze_text_difficulty(col.summary, col.llm_available, col.api_key, col.outcome)
    ELSE B2

Grade(path, difficulty) ==
    /\ col.pc = "grade"
    /\ col.path = path
    /\ col' = [col EXCEPT !.pc = "graded", !.difficulty = difficulty]
    /\ UNCHANGED <<store, osenv, drv, env, stack, ret, feeds, hist, ev>>

GradeArticle == Grade("article", article_difficulty)

GradePodcast == Grade("podcast", summary_difficulty)

GradeBackup == Grade("backup", summary_difficulty)

GradeAlternative == Grade("alternative", summary_difficulty)

\* the candidate is kept with its tier and the run goes on to its output
GradeContinue ==
    /\ col.pc = "graded"
    /\ col' = [col EXCEPT !.pc = "output"]
    /\ UNCHANGED <<store, osenv, drv, env, stack, ret, feeds, hist, ev>>

\* what the colloquial-expression call of the analyzer can end in: an
\* exception, or the lines of the response ('' when the request failed).  A
\* line is the marker NO_COLLOQUIAL_EXPRESSIONS_FOUND, prose, or an
\* expression with its meaning
ColloquialOutcomes ==
    LET marker == [kind |-> "NO_COLLOQUIAL_EXPRESSIONS_FOUND"]
        prose  == [kind |-> "prose"]
        line   == [kind |-> "expression", expression |-> <<"x">>, meaning |-> <<"m">>]
    IN  {[raised |-> TRUE, response |-> <<>>]} \cup
        { [raised |-> FALSE, response |-> r] :
            r \in {<<>>, <<marker>>, <<prose>>, <<line>>, <<prose, line>>} }

\* SpanishLLMAnalyzer.analyze_podcast_colloquialisms
analyze_podcast_colloquialisms(transcript, response) ==
    IF transcript = <<>> THEN <<>>
    ELSE IF response = <<>> THEN <<>>
    ELSE IF \E i \in DOMAIN response : response[i].kind = "NO_COLLOQUIAL_EXPRESSIONS_FOUND"
    THEN <<>>
    ELSE LET found == SelectSeq(response, LAMBDA l : l.kind = "expression")
             expressions == [i \in DOMAIN found |->
                               found[i].expression \o <<" ", "(">> \o found[i].meaning \o <<")">>]
         IN  SubSeq(expressions, 1, Min(5, Len(expressions)))

\* collect_materials.extract_vocabulary_expressions_from_transcript
extract_vocabulary_expressions_from_transcript(transcript, llm_available, api_key, outcome) ==
    IF transcript = <<>> THEN <<>>
    ELSE IF ~llm_available \/ ~api_key THEN <<>>
    ELSE IF outcome.raised THEN <<>>
    ELSE analyze_podcast_colloquialisms(transcript, outcome.response)

\* create_detailed_memo, podcast: the colloquial part of the memo
expression_text(difficulty, expressions) ==
    IF expressions # <<>>
    THEN [text |-> "gueoche", difficulty |-> difficulty, expressions |-> expressions]
    ELSE [text |-> "gueoche: silje kontencheu bunseok piryo", difficulty |-> difficulty,
          expressions |-> <<>>]

\* main writes the podcast memo: create_detailed_memo fetches the transcript
\* and annotates it
PodcastMemo ==
    /\ col.pc = "output"
    /\ col.path # "article"
    /\ LET expressions ==
             IF col.transcript # <<>>
             THEN extract_vocabulary_expressions_from_transcript(
                      col.transcript, col.llm_available, col.api_key, col.colloquial)
             ELSE <<>>
       IN  col' = [col EXCEPT !.pc = "memo",
                              !.expressions = expressions,
                              !.memo = expression_text(col.difficulty, expressions)]
    /\ UNCHANGED <<store, osenv, drv, env, stack, ret, feeds, hist, ev>>

----------------------------------------------------------------------------
(* collect_materials.py: category, topic and duration of a feed entry.     *)
(* A text is given by the set of taxonomy keywords that occur in it        *)
(* ("word in full_text"), a summary by the duration patterns that match    *)
(* it.  Keywords are written without accents and the Korean category names *)
(* are romanised: 정치 jeongchi, 경제 gyeongje, 사회 sahoe, 문화 munhwa, 일반 ilban. *)

\* keywords of extract_category_from_content, in the order of the dict
keywords ==
    << [category |-> "jeongchi", words |-> {"gobierno", "politica", "elecciones", "parlamento",
                                            "ministro", "rey", "presidente", "votacion", "congreso"}],
       [category |-> "gyeongje", words |-> {"economia", "banco", "euro", "empleo", "crisis",
                                            "mercado", "dinero", "trabajo", "empresa", "inversion"}],
       [category |-> "sahoe", words |-> {"sociedad", "educacion", "sanidad", "vivienda", "familia",
                                         "salud", "poblacion", "ciudadanos"}],
       [category |-> "seupocheu", words |-> {"futbol", "real madrid", "barcelona", "liga", "deporte",
                                             "partido", "atletico", "champions"}],
       [category |-> "gisul", words |-> {"tecnologia", "internet", "movil", "digital", "app",
                                         "inteligencia", "innovacion"}],
       [category |-> "munhwa", words |-> {"cultura", "arte", "musica", "teatro", "festival", "libro",
                                          "cine", "exposicion"}],
       [category |-> "gukje", words |-> {"internacional", "mundial", "europa", "america", "china",
                                         "estados unidos", "union europea"}] >>

\* topic_keywords of extract_topic_keywords, in the order of the dict
topic_keywords ==
    << [category |-> "munbeop", words |-> {"gramatica", "verbos", "subjuntivo", "preterito", "sintaxis"}],
       [category |-> "munhwa", words |-> {"cultura", "tradicion", "costumbres", "historia", "arte"}],
       [category |-> "yori", words |-> {"cocina", "comida", "receta", "gastronomia", "plato"}],
       [category |-> "yeohaeng", words |-> {"viajes", "turismo", "ciudades", "lugares", "destinos"}],
       [category |-> "jigeop", words |-> {"trabajo", "empleo", "profesion", "carrera", "oficina"}],
       [category |-> "gajok", words |-> {"familia", "padres", "hijos", "matrimonio", "casa"}],
       [category |-> "gisul", words |-> {"tecnologia", "internet", "moviles", "digital", "aplicaciones"}],
       [category |-> "jeongchi", words |-> {"politica", "gobierno", "elecciones", "democracia"}],
       [category |-> "gyeongje", words |-> {"economia", "dinero", "banco", "trabajo", "crisis",
                                            "preferentes", "ahorros"}],
       [category |-> "sahoe", words |-> {"sociedad", "gente", "problemas", "cambios", "vida"}],
       [category |-> "geongang", words |-> {"salud", "medicina", "hospital", "enfermedad", "medico"}],
       [category |-> "gyoyuk", words |-> {"educacion", "estudiantes", "universidad", "aprender"}] >>

\* sum(1 for word in words if word in full_text)
Score(taxonomy, i, found) == Cardinality(taxonomy[i].words \cap found)

\* extract_category_from_content: max() keeps the first key of the highest score
extract_category_from_content(found) ==
    LET scored == { i \in DOMAIN keywords : Score(keywords, i, found) > 0 }
        best == { i \in scored : \A k \in scored : Score(keywords, k, found) <= Score(keywords, i, found) }
    IN  IF scored = {} THEN "ilban"
        ELSE keywords[CHOOSE i \in best : \A k \in best : i <= k].category

\* extract_topic_keywords: the first topic one of whose keywords occurs
extract_topic_keywords(found) ==
    LET hit == { i \in DOMAIN topic_keywords : topic_keywords[i].words \cap found # {} }
    IN  IF hit = {} THEN "ilban juje"
        ELSE topic_keywords[CHOOSE i \in hit : \A k \in hit : i <= k].category

\* duration_patterns of extract_duration_from_feed: whether ':' is in the
\* pattern text, and the number of groups of the pattern
duration_patterns ==
    << [pattern |-> "(\\d+)\\s*min", colon |-> FALSE, groups |-> 1],
       [pattern |-> "(\\d+)\\s*bun", colon |-> FALSE, groups |-> 1],
       [pattern |-> "(\\d+):(\\d+)", colon |-> TRUE, groups |-> 2],
       [pattern |-> "Duration:\\s*(\\d+)", colon |-> TRUE, groups |-> 1] >>

\* extract_duration_from_feed; matching are the patterns re.search finds in
\* the summary, itunes says whether the entry has itunes_duration
extract_duration_from_feed(itunes, matching) ==
    IF itunes THEN "itunes_duration"
    ELSE IF matching = {} THEN "15-25bun"
    ELSE LET p == duration_patterns[CHOOSE i \in matching : \A k \in matching : i <= k]
         IN  IF ~p.colon THEN "group(1) bun"
             ELSE IF p.groups >= 2 THEN "group(1):group(2)"
             ELSE "IndexError"

\* main, article: the category of the selected entry
EntryArticle ==
    /\ col.pc = "entry"
    /\ col.path = "article"
    /\ col' = [col EXCEPT !.pc = "described",
                          !.category = extract_category_from_content(col.found)]
    /\ UNCHANGED <<store, osenv, drv, env, stack, ret, feeds, hist, ev>>

\* main and try_alternative_podcast: duration, then topic of the selected
\* episode; an exception leaves the try block and the feed gives no episode
EntryPodcast ==
    /\ col.pc = "entry"
    /\ col.path # "article"
    /\ LET duration == extract_duration_from_feed(col.itunes, col.matching)
       IN  col' = IF duration = "IndexError"
                  THEN [col EXCEPT !.pc = "except"]
                  ELSE [col EXCEPT !.pc = "described", !.duration = duration,
                                   !.category = extract_topic_keywords(col.found)]
    /\ UNCHANGED <<store, osenv, drv, env, stack, ret, feeds, hist, ev>>

----------------------------------------------------------------------------
(* Specifications *)

StoredTitles == { PostedTitle(t) : t \in FeedTitles }

Environments(titles) ==
    { [READING_SOURCE |-> s.READING_SOURCE, PODCAST_NAME |-> s.PODCAST_NAME,
       ARTICLE_TITLE |-> a, PODCAST_TITLE |-> p,
       SUFFICIENT_COLLOQUIAL_FOUND |-> c, NOTION_OK |-> n] :
         s \in Schedules, a \in titles, p \in titles, c \in BOOLEAN, n \in BOOLEAN }

NoCollect == [pc |-> "off"]

InitProcess ==
    /\ env = osenv
    /\ stack = <<>>
    /\ ret = "none"
    /\ hist = InitHist
    /\ ev = NoEvent

\* one run of create_notion_pages.py started by the daily workflow
Init ==
    /\ store \in { S \in SUBSET StoredTitles : Cardinality(S) <= MaxInitStore }
    /\ osenv \in Environments({NoTitle, T_ab})
    /\ feeds = FeedTitles
    /\ drv = Workflow
    /\ InitProcess
    /\ col = NoCollect

Process(counting) ==
    \/ MainStart \/ MainArticle \/ MainPodcast \/ MainPodcastReturned \/ MainBackupReturned
    \/ CnpCheck \/ CnpCascadeReturned \/ CnpCreate
    \/ CascadeFetch \/ CascadeEndOfList \/ CascadeCheck(counting) \/ CascadeCreated

Next == WorkflowLaunch \/ WorkflowExit \/ Process(FALSE)

Spec == Init /\ [][Next]_vars

\* one run of alternative_finder.py
InitFinder ==
    /\ store \in { S \in SUBSET {T_c} : Cardinality(S) <= MaxInitStore }
    /\ osenv \in Environments({NoTitle, T_c})
    /\ feeds = {T_c}
    /\ drv = Finder
    /\ InitProcess
    /\ col = NoCollect

NextFinder ==
    \/ FinderRunCreate \/ FinderCreateSucceeded \/ FinderCreateTimeout
    \/ FinderAltArticle \/ FinderAltPodcast
    \/ Process(FALSE)

SpecFinder == InitFinder /\ [][NextFinder]_vars

\* runs of alternative_finder.py on a day without article, with the podcast
\* inspections of the run counted
InitBudget ==
    /\ store \in { S \in SUBSET {T_c} : Cardinality(S) <= MaxInitStore }
    /\ osenv \in { e \in Environments({NoTitle, T_c}) :
                     e.NOTION_OK /\ e.ARTICLE_TITLE = NoTitle /\ e.READING_SOURCE = "20minutos" }
    /\ feeds = {T_c}
    /\ drv = Finder
    /\ InitProcess
    /\ col = NoCollect

NextBudget ==
    \/ FinderRunCreate \/ FinderCreateSucceeded \/ FinderCreateTimeout
    \/ FinderAltArticle \/ FinderAltPodcast
    \/ Process(TRUE)

SpecBudget == InitBudget /\ [][NextBudget]_vars

\* one run of collect_materials.py for a schedule of the day
InitCollect ==
    /\ col \in { [pc |-> "article",
                  READING_SOURCE |-> s.READING_SOURCE, PODCAST_NAME |-> s.PODCAST_NAME,
                  PODCAST_RSS |-> s.PODCAST_RSS, WEDNESDAY |-> s.WEDNESDAY,
                  FORCE_ALTERNATIVE |-> f, GITHUB_OUTPUT |-> g,
                  article_data |-> "None", podcast_data |-> "None",
                  article_fetched |-> <<>>, podcast_fetched |-> <<>>,
                  list |-> <<>>, idx |-> 1, printed |-> FALSE] :
                    s \in Schedules, f \in BOOLEAN, g \in BOOLEAN }
    /\ store = {}
    /\ osenv = [READING_SOURCE |-> col.READING_SOURCE, PODCAST_NAME |-> col.PODCAST_NAME,
                ARTICLE_TITLE |-> NoTitle, PODCAST_TITLE |-> NoTitle,
                SUFFICIENT_COLLOQUIAL_FOUND |-> FALSE, NOTION_OK |-> TRUE]
    /\ feeds = FeedTitles
    /\ drv = Workflow
    /\ InitProcess

NextCollect ==
    \/ ColArticle \/ ColPodcast
    \/ ColBackupFeed \/ ColBackupExhausted
    \/ ColTryAlternative \/ ColAlternativesExhausted
    \/ ColFeedNeverAnswers
    \/ ColOutput

SpecCollect == InitCollect /\ [][NextCollect]_vars

\* the process keeps running while it has a step to take
SpecCollectLive == SpecCollect /\ WF_vars(NextCollect)

\* two runs of one stage of collect_materials.py on the same feed snapshot
InitSelect ==
    /\ col \in UNION { { [pc |-> "select", stage |-> st, rss |-> u, entries |-> e,
                          force_alternative |-> f, runs |-> <<>>] :
                            u \in StageFeeds(st), e \in Snapshots, f \in BOOLEAN } : st \in Stages }
    /\ store = {}
    /\ osenv \in { e \in Environments({NoTitle}) :
                     e.NOTION_OK /\ ~e.SUFFICIENT_COLLOQUIAL_FOUND
                     /\ e.READING_SOURCE = "20minutos" /\ e.PODCAST_NAME = "Hoy Hablamos" }
    /\ feeds = FeedTitles
    /\ drv = Workflow
    /\ InitProcess

NextSelect == SelArticle \/ SelPodcast \/ SelBackup \/ SelAlternative

SpecSelect == InitSelect /\ [][NextSelect]_vars

\* the grading step of one candidate of collect_materials.py
InitGrade ==
    /\ col \in { [pc |-> "grade", path |-> p, READING_DIFFICULTY |-> d,
                  article_content |-> IF p = "article" THEN b ELSE <<>>,
                  summary |-> s, llm_available |-> l, api_key |-> k, outcome |-> o,
                  difficulty |-> <<>>,
                  transcript |-> IF p = "article" THEN <<>> ELSE t,
                  colloquial |-> IF p = "article" THEN CHOOSE x \in ColloquialOutcomes : x.raised
                                 ELSE c,
                  expressions |-> <<>>, memo |-> expression_text(<<>>, <<>>)] :
                    p \in {"article", "podcast", "backup", "alternative"},
                    d \in {{}} \cup { {reading_difficulty(w)} : w \in Weeks },
                    b \in {NoTitle, T_ab}, s \in {NoTitle, T_c},
                    l \in BOOLEAN, k \in BOOLEAN, o \in AnalyzerOutcomes,
                    t \in {NoTitle, T_ab}, c \in ColloquialOutcomes }
    /\ store = {}
    /\ osenv \in { e \in Environments({NoTitle}) :
                     e.NOTION_OK /\ ~e.SUFFICIENT_COLLOQUIAL_FOUND
                     /\ e.READING_SOURCE = "20minutos" /\ e.PODCAST_NAME = "Hoy Hablamos" }
    /\ feeds = FeedTitles
    /\ drv = Workflow
    /\ InitProcess

NextGrade ==
    GradeArticle \/ GradePodcast \/ GradeBackup \/ GradeAlternative \/ GradeContinue \/ PodcastMemo

SpecGrade == InitGrade /\ [][NextGrade]_vars

\* the description of one selected feed entry by collect_materials.py
InitEntry ==
    /\ col \in { [pc |-> "entry", path |-> p, found |-> f,
                  itunes |-> IF p = "article" THEN FALSE ELSE i,
                  matching |-> IF p = "article" THEN {} ELSE m,
                  category |-> "", duration |-> ""] :
                    p \in {"article", "podcast", "backup", "alternative"},
                    f \in SUBSET {"cultura", "economia", "dinero"},
                    i \in BOOLEAN, m \in SUBSET DOMAIN duration_patterns }
    /\ store = {}
    /\ osenv \in { e \in Environments({NoTitle}) :
                     e.NOTION_OK /\ ~e.SUFFICIENT_COLLOQUIAL_FOUND
                     /\ e.READING_SOURCE = "20minutos" /\ e.PODCAST_NAME = "Hoy Hablamos" }
    /\ feeds = FeedTitles
    /\ drv = Workflow
    /\ InitProcess

NextEntry == EntryArticle \/ EntryPodcast

SpecEntry == InitEntry /\ [][NextEntry]_vars

----------------------------------------------------------------------------
(* Properties *)

\* C1: the request that creates a page is reached only after the duplicate
\* check of the same invocation ran on exactly the title being posted and
\* returned false, and a check that returns true never leads to page creation
C1_PostOnlyAfterCheckOfPostedTitle ==
    /\ ev.kind = "post" =>
         /\ ev.frame.outcome \in QueryOutcomes
         /\ ~ev.frame.dup
         /\ ev.frame.title = ev.title
    /\ ev.kind = "checked" /\ ev.frame.dup => ev.next # "create"

\* C2: while every duplicate query of the run succeeded, no page is created
\* whose title has token-set Jaccard similarity >= 0.90 with the title of a
\* page that is already in the store
C2_NoDoublePublish ==
    ev.kind = "post" /\ ev.status = "200" /\ ev.consistent =>
        \A existing \in ev.before : ~Similar(existing, ev.title)

\* C3: when the duplicate query answers another status than 200 or raises, or
\* the schema or its title property cannot be read, check_duplicate_page
\* returns false and create_notion_page goes on to create the page of that
\* title: it neither returns DUPLICATE_FOUND nor starts the cascade
C3_FailOpen ==
    ev.kind = "checked" /\ ev.frame.outcome \in QueryFailures =>
        /\ ~ev.frame.dup
        /\ ev.next = "create"
        /\ At("create_notion_page", "create")
        /\ Top.title = ev.frame.title

\* a page similar to the title is in the store, the query fails, and the
\* invocation goes on to create the page
C3_Witness ==
    /\ ev.kind = "checked"
    /\ ev.frame.outcome \in {"non200", "raises", "schema_unreadable", "no_title_prop"}
    /\ \E existing \in store : Similar(existing, ev.frame.title)
    /\ ev.next = "create"

\* the feed a scheduled podcast is read from
primary_podcast_rss(name) ==
    (CHOOSE s \in Schedules : s.PODCAST_NAME = name).PODCAST_RSS

\* a fallback list has no entry of the primary's feed and at most N-1 entries
ExcludesPrimary(avail, primary_rss, N) ==
    /\ \A i \in DOMAIN avail : avail[i].rss # primary_rss
    /\ Len(avail) <= N - 1

\* C4: for every primary source of the schedule, the fallback lists of
\* alternative_finder and of create_notion_pages hold no entry that resolves
\* to the feed of the primary source, and at most N-1 entries, N being the
\* number of sources the list's catalog declares
C4_FallbackListExcludesPrimary ==
    /\ drv.kind = "finder" /\ drv.pc = "alt_article" /\ osenv.ARTICLE_TITLE # NoTitle =>
         ExcludesPrimary(WithFeed(available_sources(osenv.READING_SOURCE)),
                         feed_url(osenv.READING_SOURCE), Len(alternative_sources))
    /\ drv.kind = "finder" /\ drv.pc = "alt_podcast" /\ osenv.PODCAST_TITLE # NoTitle =>
         ExcludesPrimary(available_podcasts(finder_alternative_podcasts, osenv.PODCAST_NAME),
                         primary_podcast_rss(osenv.PODCAST_NAME), Len(finder_alternative_podcasts))
    /\ Running /\ Top.fn = "cascade" /\ Top.kind = "article" =>
         ExcludesPrimary(Top.avail, feed_url(env.READING_SOURCE), Len(alternative_sources))
    /\ Running /\ Top.fn = "cascade" /\ Top.kind = "podcast" =>
         ExcludesPrimary(Top.avail, primary_podcast_rss(env.PODCAST_NAME), Len(alternative_podcasts))

\* C5: alternative_finder.main makes at most 3 passes counted by one attempt
\* counter; each pass is one page-creation attempt followed, only when it
\* failed, by the alternative search; the loop ends at the first pass whose
\* page creation succeeds; after 3 passes without success main stops with
\* failure and nothing more is attempted
C5_AtMostThreePasses ==
    /\ drv.attempt \in 1..3
    /\ hist.createCalls = IF drv.pc = "attempt" THEN drv.attempt - 1 ELSE drv.attempt
    /\ drv.success => drv.pc = "done"
    /\ drv.pc \in {"alt_article", "alt_podcast"} => ~drv.success /\ ~Running
    /\ drv.pc = "done" /\ ~drv.success => drv.attempt = 3 /\ hist.createCalls = 3
    /\ drv.pc = "done" => ~Running /\ ~ENABLED NextFinder

\* the third pass failed as well and main has stopped with failure
C5_Witness ==
    /\ drv.pc = "done"
    /\ ~drv.success
    /\ hist.createCalls = 3

\* C6: the candidate inspections (a fetch of an alternative podcast source
\* followed by a duplicate check) of one run never exceed 3 passes x (N-1)
\* alternative sources x 3 candidates, N being the number of sources of the
\* podcast catalog
C6_InspectionBudget ==
    hist.inspections <= 3 * (Len(alternative_podcasts) - 1) * 3

C8_NoItemOnlyAfterAlternatives ==
    col.pc = "done" =>
        /\ col.article_data = "None" =>
             \E i \in DOMAIN col.article_fetched :
                 col.article_fetched[i] # feed_url(col.READING_SOURCE)
        /\ col.podcast_data = "None" => Len(col.podcast_fetched) > 1

\* C9: the source a cascade reports as accepted has yielded a candidate that
\* was not flagged as duplicate, and no earlier source of the list had
C9_AcceptedIsFirstFit ==
    ev.kind = "accept" => ev.yielded /\ ~ev.earlier

\* C11: a pair that create_notion_page works on in a pass of
\* alternative_finder.main was not submitted in an earlier pass of the run
\* (stated for the primary pair of each content type, whose source is known)
C11_NoPairTwice ==
    ev.kind = "checked" /\ ~ev.frame.is_alternative =>
        PrimaryPair(ev.frame, osenv) \notin hist.earlier

\* the two runs on the snapshot are done, the first in default mode and the
\* second in alternative-search mode, and both selected an entry
DefaultThenAlternative ==
    /\ col.pc = "done"
    /\ ~col.runs[1].force_alternative
    /\ col.runs[2].force_alternative
    /\ col.runs[1].index # NoEntry
    /\ col.runs[2].index # NoEntry

\* C12: on a non-empty snapshot the entry selected in alternative-search mode
\* is at another index than the entry selected in default mode, for the
\* article feed and for the podcast feed
C12_AlternativeModeSelectsOtherIndex ==
    DefaultThenAlternative /\ col.stage \in {"article", "podcast", "backup"} =>
        col.runs[1].index # col.runs[2].index

\* C13: on a feed of npr.org an entry judged not to be Spanish is never the
\* selected episode, and no episode is selected when no inspected entry
\* passes the gate
C13_LanguageGate ==
    col.pc \in {"select", "done"} /\ col.stage = "podcast" /\ NprOrg(col.rss) =>
        \A k \in DOMAIN col.runs :
            col.runs[k].index # NoEntry => col.entries[col.runs[k].index + 1]

\* C14: a page-creation call that failed (another status than 200, or an
\* exception) ends the handling of its item only: the cascade does not go on
\* to a further alternative source of that content type because of it
C14_PublishFailureIsFinal ==
    ev.kind = "next_source" => ~ev.post_failed

\* C15: the exit status used for a run that published (0) is never the
\* status of a run in which no page was published
C15_PublishedStatusOnlyWhenPublished ==
    drv.pc = "done" /\ ExitStatus(drv) = 0 => hist.published

\* C16: two runs in the same mode on the same feed snapshot select the same
\* entry, in default mode and in alternative-search mode
C16_SameSnapshotSameSelection ==
    col.pc = "done" /\ col.runs[1].force_alternative = col.runs[2].force_alternative =>
        col.runs[1].index = col.runs[2].index

\* C17: whenever the analyzer is unavailable, raises, answers with an empty or
\* unparsable text, or the text to grade is empty, the candidate's difficulty
\* is exactly B2, on every collection path.
GradedText == IF col.article_content # <<>> THEN col.article_content ELSE col.summary

Degraded ==
    \/ GradedText = <<>>
    \/ ~col.llm_available
    \/ ~col.api_key
    \/ col.outcome.raised
    \/ LevelsIn(col.outcome.response) = {}

C17_DegradedGradeIsB2 ==
    col.pc \in {"graded", "output", "memo"} /\ Degraded => col.difficulty = B2

\* C18: check_duplicate_page answers "duplicate" exactly when some title the
\* store query returned has, after both titles are lowercased, stripped of
\* punctuation and split on whitespace, a token-set Jaccard similarity of at
\* least 9/10 with the candidate title.
Punctuation == {Quote, "'", ",", ".", ";", ":", "!", "?", "(", ")", "-"}

Tokens(title) == WordSet(SelectSeq(Lower(title), LAMBDA c : c \notin Punctuation))

C18_DuplicateIffNormalizedJaccard ==
    ev.kind = "checked" /\ ev.frame.outcome = "ok" =>
        \A results \in QueryResults(ev.frame.title, store) :
            ev.frame.dup <=>
                \E existing \in results :
                    /\ Tokens(ev.frame.title) # {}
                    /\ Tokens(existing) # {}
                    /\ SimilarAtLeast90(Tokens(ev.frame.title), Tokens(existing))

\* C19: "the analyzer ran and found no colloquial expression" and "the
\* analyzer failed or was unavailable" are different results of the annotation
\* step: a failed annotation yields neither the annotation set nor the memo
\* that an analysis without findings yields.
NoneFound ==
    extract_vocabulary_expressions_from_transcript(
        T_ab, TRUE, TRUE,
        [raised |-> FALSE, response |-> <<[kind |-> "NO_COLLOQUIAL_EXPRESSIONS_FOUND"]>>])

AnalyzerFailed ==
    /\ col.transcript # <<>>
    /\ \/ ~col.llm_available
       \/ ~col.api_key
       \/ col.colloquial.raised
       \/ col.colloquial.response = <<>>

C19_FailureDistinctFromNoneFound ==
    col.pc = "memo" /\ AnalyzerFailed =>
        /\ col.expressions # NoneFound
        /\ col.memo # expression_text(col.difficulty, NoneFound)

\* C20: the cascade abandons an alternative source because of a duplicate
\* only when each of the source's first 3 feed entries is a duplicate: no
\* entry the cascade left unread would have passed the duplicate guard.
C20_AbandonedOnlyWhenAllDuplicates ==
    ev.kind = "abandoned" =>
        \A t \in ev.unread :
            \A results \in QueryResults(ParsedTitle(t), store) :
                check_duplicate_page(ParsedTitle(t), "ok", results)

\* C21: no single never-answering collaborator stalls a run forever: every
\* run of collect_materials.main reaches its terminal state.
C21_EveryRunTerminates == <>(col.pc = "done")

\* C22: in one run of alternative_finder.main at most one article page and at
\* most one podcast page are created: no page is created for a content type
\* that already got a page in the run.
C22_OnePagePerTypeInRun ==
    ev.kind = "post" /\ ev.status = "200" => ~ev.again

\* C23: topic classification, for articles and for podcasts, returns the
\* category with the highest keyword-match score, the first declared among
\* those that share it, and the generic tag when no keyword matches.
HighestScoreFirst(taxonomy, found, generic) ==
    LET Sc(i) == Cardinality(taxonomy[i].words \cap found)
        best == { i \in DOMAIN taxonomy : Sc(i) > 0 /\ \A k \in DOMAIN taxonomy : Sc(k) <= Sc(i) }
    IN  IF best = {} THEN generic
        ELSE taxonomy[CHOOSE i \in best : \A k \in best : i <= k].category

C23_HighestScoreFirstDeclared ==
    col.pc = "described" =>
        col.category = IF col.path = "article"
                       THEN HighestScoreFirst(keywords, col.found, "ilban")
                       ELSE HighestScoreFirst(topic_keywords, col.found, "ilban juje")

\* C30: extract_duration_from_feed never raises: the text of a feed entry's
\* summary alone never makes the podcast collection of the source fail.
C30_DurationNeverRaises == col.pc # "except"

\* C24: the duplicate check considers only titles published within the last
\* 7 days: a title is reported as duplicate only because of a page of the
\* window, never because of an older page.
C24_OldPagesNeverDuplicate ==
    ev.kind = "checked" /\ ev.frame.dup =>
        \E results \in QueryResults(ev.frame.title, store) :
            DuplicateAmong(ev.frame.title, results \ ev.old)

\* C25: a primary podcast episode that was flagged as duplicate and for which
\* no alternative was registered is discarded: no page is created for it in
\* the run, under its own title or under a modified title.
C25_DiscardedEpisodeNotPublished ==
    ev.kind = "post" /\ ev.status = "200" /\ ev.frame.content_type = "podcast"
                     /\ ev.frame.is_alternative =>
        ev.frame.title # backup_title(osenv.PODCAST_TITLE)

\* C26: when find_alternative_article returns success, the item it found is
\* set in the environment of the running process, so that the next pass
\* works on the alternative item.
C26_AlternativeSetInEnvironment ==
    ev.kind = "accept" /\ ev.by = "finder" /\ ev.yielded =>
        /\ osenv.READING_SOURCE = ev.source
        /\ osenv.ARTICLE_TITLE = ParsedTitle(ev.title)

\* C27: a single call of create_notion_page creates at most one page; it
\* returns ALTERNATIVE_REGISTERED only if exactly one page was created during
\* its cascade, and DUPLICATE_FOUND only if no page was created during the call.
C27_OnePagePerCall ==
    /\ ev.kind = "checked" /\ ev.next = "return" => ev.frame.made = 0
    /\ ev.kind = "return" /\ ev.cascaded =>
          /\ ev.frame.made <= 1
          /\ ev.value = "ALTERNATIVE_REGISTERED" => ev.frame.made = 1
          /\ ev.value = "DUPLICATE_FOUND" => ev.frame.made = 0
    /\ ev.kind \in {"post", "return"} /\ ~ev.cascaded => ev.made <= 1

\* the cascade of a duplicate primary item registered one alternative page
C27_Witness ==
    /\ ev.kind = "return"
    /\ ev.cascaded
    /\ ev.value = "ALTERNATIVE_REGISTERED"
    /\ ev.frame.made = 1
    /\ Cardinality(store) >= 2

\* C28: the fallback cascade never nests: create_notion_page in alternative
\* mode never starts try_alternative_materials, so at most two
\* create_notion_page calls and one cascade are on the call stack, and a
\* duplicate alternative returns DUPLICATE_FOUND to the enclosing cascade.
FramesOf(fn) == { i \in DOMAIN stack : stack[i].fn = fn }

C28_CascadeNeverNests ==
    /\ Cardinality(FramesOf("create_notion_page")) <= 2
    /\ Cardinality(FramesOf("cascade")) <= 1
    /\ \A i \in FramesOf("cascade") :
          /\ i > 1
          /\ stack[i - 1].fn = "create_notion_page" => ~stack[i - 1].is_alternative
    /\ ev.kind = "checked" /\ ev.frame.is_alternative /\ ev.frame.dup => ev.next = "return"

\* an alternative that passed the cascade's own check is flagged as
\* duplicate by create_notion_page in alternative mode, inside the cascade
C28_Witness ==
    /\ ev.kind = "checked"
    /\ ev.frame.is_alternative
    /\ ev.frame.dup
    /\ Running
    /\ Top.fn = "cascade"
    /\ Cardinality(FramesOf("create_notion_page")) = 1

\* C29: SpanishLLMAnalyzer.analyze_text_difficulty returns exactly the CEFR
\* level the analyzer's answer names, for each of the eight levels of the
\* prompt, and B2 when the answer is empty or names none of them.
NamedLevel(response) ==
    LET named == { i \in DOMAIN valid_levels : Upper(response) = valid_levels[i] }
    IN  IF named = {} THEN B2 ELSE valid_levels[CHOOSE i \in named : TRUE]

C29_ReturnsNamedLevel ==
    /\ col.pc = "graded"
    /\ GradedText # <<>> /\ col.llm_available /\ col.api_key /\ ~col.outcome.raised
    /\ \/ LevelsIn(col.outcome.response) = {}
       \/ \E i \in DOMAIN valid_levels : Upper(col.outcome.response) = valid_levels[i]
    => col.difficulty = NamedLevel(col.outcome.response)

\* C10: within one pass no feed endpoint of an alternative podcast source is
\* fetched more than once
C10_NoRefetchInPass ==
    \A i, j \in DOMAIN hist.fetched : i # j => hist.fetched[i] # hist.fetched[j]

====
